---- MODULE Spec2Model ----
(***************************************************************************)
(* The cuckoo filter of dakv/cuckoo: src/src/bucket.rs (Bucket) and        *)
(* src/src/cuckoo_filter.rs (CuckooFilter).  The hashing helpers of        *)
(* crate::util (get_indices_and_fingerprint, get_alt_index, upper_power2)  *)
(* are modelled from the written specification, sections 4.1 and 4.3.      *)
(***************************************************************************)
EXTENDS Integers, Sequences, FiniteSets, Bags, TLC

\* ------------------------------------------------------------------------
\* Program constants
\* ------------------------------------------------------------------------

\* bucket.rs:3
BUCKET_SIZE == 4

\* cuckoo_filter.rs:10
MAX_CUCKOO_COUNT == 500

\* cuckoo_filter.rs:17, 0x03f79d71b4ca8b09 as eight bytes, least significant first
DE_BRUIJN64 == <<9, 139, 202, 180, 113, 157, 247, 3>>

\* cuckoo_filter.rs:12-16
DE_BRUIJN64_TAB ==
    <<0, 1, 56, 2, 57, 49, 28, 3, 61, 58, 42, 50, 38, 29, 17, 4, 62, 47, 59, 36, 45, 43, 51, 22, 53,
      39, 33, 30, 24, 18, 12, 5, 63, 55, 48, 27, 60, 41, 37, 16, 46, 35, 44, 21, 52, 32, 23, 11, 54,
      26, 40, 15, 34, 20, 31, 10, 25, 14, 19, 9, 13, 8, 7, 6>>

\* The value get_indices_and_fingerprint stores when the hash byte of a key is 0
\* ("a fixed non-zero replacement value", specification 4.1).
FP_ZERO_REPLACEMENT == 7

\* ------------------------------------------------------------------------
\* Bounds of the model
\* ------------------------------------------------------------------------

\* with_capacity is called with a bucket count in 1..MaxCapacity
MaxCapacity == 2

\* hash values (of a key, of a fingerprint byte) range over 0..MaxHash
MaxHash == 1

\* successful adds are followed while size is below MaxFill
MaxFill == 5

\* at most MaxDeletes successful deletes are followed in one run
MaxDeletes == 1

\* trailing_zeros is applied to m << k and to its two's complement, for every
\* m in 0..MaxMultiplier and every shift k in 0..63
MaxMultiplier == 25

\* with_capacity is also called with any bucket count in 0..MaxRequest, a power
\* of two or not
MaxRequest == 3

\* new is called with max_num_keys in 0..MaxNewKeys
MaxNewKeys == 4

\* gen_size is called with max_num_keys in 0..MaxNumKeys
MaxNumKeys == 130

\* the natural hash bytes a key's fingerprint is derived from
KeyBytes == {0, 1}

\* A key is represented by what the hash functions make of it: the hash that
\* gives its primary index and the hash byte that gives its fingerprint.
Keys == [hash : 0..MaxHash, byte : KeyBytes]

Slots == 0..(BUCKET_SIZE - 1)

\* ------------------------------------------------------------------------
\* Unsigned arithmetic
\* ------------------------------------------------------------------------

RECURSIVE BitAnd(_, _)
BitAnd(a, b) ==
    IF a = 0 \/ b = 0 THEN 0
    ELSE (a % 2) * (b % 2) + 2 * BitAnd(a \div 2, b \div 2)

RECURSIVE BitXor(_, _)
BitXor(a, b) ==
    IF a = 0 THEN b
    ELSE IF b = 0 THEN a
    ELSE (((a % 2) + (b % 2)) % 2) + 2 * BitXor(a \div 2, b \div 2)

RECURSIVE Pow2(_)
Pow2(n) == IF n = 0 THEN 1 ELSE 2 * Pow2(n - 1)

\* A u64 is a sequence of eight bytes, least significant first.
U64(n) == [i \in 1..8 |-> IF i <= 3 THEN (n \div Pow2(8 * (i - 1))) % 256 ELSE 0]

RECURSIVE Carry(_, _, _)
\* the carry into byte i of the sum a + 1 (a given as bytes)
Carry(a, i, c) == IF i = 1 THEN c ELSE (a[i - 1] + Carry(a, i - 1, c)) \div 256

\* (c as i64 * (-1)) as u64: the two's complement of c
Neg64(a) ==
    LET inv == [i \in 1..8 |-> 255 - a[i]]
    IN  [i \in 1..8 |-> (inv[i] + Carry(inv, i, 1)) % 256]

And64(a, b) == [i \in 1..8 |-> BitAnd(a[i], b[i])]

RECURSIVE ColumnSum(_, _, _, _)
\* sum of a[i] * b[k + 1 - i] for i in 1..n
ColumnSum(a, b, k, n) ==
    IF n = 0 THEN 0 ELSE a[n] * b[k + 1 - n] + ColumnSum(a, b, k, n - 1)

RECURSIVE MulColumn(_, _, _)
\* column k of the schoolbook product, with the carry of the columns below it
MulColumn(a, b, k) ==
    ColumnSum(a, b, k, k) + (IF k = 1 THEN 0 ELSE MulColumn(a, b, k - 1) \div 256)

\* u64::wrapping_mul
WrappingMul64(a, b) == [k \in 1..8 |-> MulColumn(a, b, k) % 256]

\* cuckoo_filter.rs:174-175 on a non-zero c given as bytes: the lowest set bit
\* times DE_BRUIJN64, its top six bits looked up in the table
DeBruijnLookup(a) ==
    LET cc == WrappingMul64(And64(a, Neg64(a)), DE_BRUIJN64)
    IN  DE_BRUIJN64_TAB[(cc[8] \div 4) + 1]

\* cuckoo_filter.rs:170-176, for the bucket counts of the model (below 2^24,
\* where c as i64 * (-1) cannot overflow)
trailing_zeros(c) == IF c = 0 THEN 64 ELSE DeBruijnLookup(U64(c))

Zero64 == [i \in 1..8 |-> 0]

\* i64::MIN, the one value whose product with -1 overflows an i64
MinI64 == [i \in 1..8 |-> IF i = 8 THEN 128 ELSE 0]

\* cuckoo_filter.rs:170-176 on any 64-bit c given as bytes: the set of outcomes.
\* c as i64 * (-1) overflows for c = 2^63: the call panics in a build with
\* overflow checks (debug, test) and wraps in a build without them.
trailing_zeros_u64(a) ==
    IF a = Zero64 THEN {[ok |-> TRUE, value |-> 64]}
    ELSE IF a = MinI64
    THEN {[ok |-> FALSE, value |-> 0], [ok |-> TRUE, value |-> DeBruijnLookup(a)]}
    ELSE {[ok |-> TRUE, value |-> DeBruijnLookup(a)]}

\* c << k on a u64 given as bytes, as in the test's trailing_zeros(1 << 24)
Shl64(a, k) ==
    WrappingMul64(a, [i \in 1..8 |-> IF i = (k \div 8) + 1 THEN Pow2(k % 8) ELSE 0])

\* ------------------------------------------------------------------------
\* State
\* ------------------------------------------------------------------------

VARIABLES
    buckets,     \* CuckooFilter.buckets: bucket index -> slot -> fingerprint byte (0: empty)
    size,        \* CuckooFilter.size
    pow,         \* CuckooFilter.pow
    fpHash,      \* the hash of a one-byte fingerprint, frozen for the filter's lifetime
    lastOp,      \* the mutating call that just returned: "new", "add", "delete"
    lastKey,     \* its key
    lastRes,     \* its result: "Ok" / "NotEnoughSpace" for add, a boolean for delete
    lastKicked,  \* whether the add that just returned (or the add that the delete
                 \* that just returned follows, on the same key) ran the eviction loop
    sizeBefore,  \* size when the call that just returned was made
    numAddOk,    \* number of add calls that returned Ok
    numDeleteOk, \* number of delete calls that returned true
    added,       \* the keys for which some add returned Ok (recorded by SpecAdds only)
    trip,        \* progress through add(k) Ok, delete(k), add(k) on lastKey: 0..3
    arg,         \* the argument of the constructor (or of the function under test)
    loop         \* reinsert followed one iteration at a time (SpecLoop only): whether
                 \* it is running, the iterations done, and its locals fp and i

vars == <<buckets, size, pow, fpHash, lastOp, lastKey, lastRes, lastKicked,
          sizeBefore, numAddOk, numDeleteOk, added, trip, arg, loop>>

\* reinsert is not running
NoLoop == [pc |-> "idle", count |-> 0, fp |-> 0, i |-> 0]

\* The fingerprints a key of the model can have
Fingerprints == {IF b = 0 THEN FP_ZERO_REPLACEMENT ELSE b : b \in KeyBytes}

\* ------------------------------------------------------------------------
\* crate::util, from the specification (4.1)
\* ------------------------------------------------------------------------

\* the low `p` bits of a value: v & (N - 1) with N = 2^p
MaskTo(v, p) == BitAnd(v, Pow2(p) - 1)

\* get_alt_index(fp, i, pow) = (i XOR hash(fp)) & (N - 1)
get_alt_index(fp, i, p) == MaskTo(BitXor(i, fpHash[fp]), p)

\* get_indices_and_fingerprint(item, pow): the record (fp, i1, i2)
get_indices_and_fingerprint(item, p) ==
    LET fp == IF item.byte = 0 THEN FP_ZERO_REPLACEMENT ELSE item.byte
        i1 == MaskTo(item.hash, p)
    IN  [fp |-> fp, i1 |-> i1, i2 |-> get_alt_index(fp, i1, p)]

RECURSIVE UpperPower2From(_, _)
UpperPower2From(p, x) == IF p >= x THEN p ELSE UpperPower2From(2 * p, x)

\* upper_power2(x): the next power of two >= x (specification 4.3)
upper_power2(x) == UpperPower2From(1, x)

\* ------------------------------------------------------------------------
\* bucket.rs
\* ------------------------------------------------------------------------

\* Bucket::new
BucketNew == [s \in Slots |-> 0]

\* insert that scans the slots from the last one
BucketInsertLast(data, finger) ==
    IF \E s \in Slots : data[s] = 0
    THEN LET s == CHOOSE s \in Slots :
                    data[s] = 0 /\ \A t \in (s + 1)..(BUCKET_SIZE - 1) : data[t] # 0
         IN  [ok |-> TRUE, data |-> [data EXCEPT ![s] = finger]]
    ELSE [ok |-> FALSE, data |-> data]

\* Bucket::insert: the first empty slot takes the fingerprint
BucketInsert(data, finger) ==
    IF \E s \in Slots : data[s] = 0
    THEN LET s == CHOOSE s \in Slots : data[s] = 0 /\ \A t \in 0..(s - 1) : data[t] # 0
         IN  [ok |-> TRUE, data |-> [data EXCEPT ![s] = finger]]
    ELSE [ok |-> FALSE, data |-> data]

\* delete that clears every slot holding the fingerprint
BucketDeleteAll(data, finger) ==
    [ok   |-> \E s \in Slots : data[s] = finger,
     data |-> [s \in Slots |-> IF data[s] = finger THEN 0 ELSE data[s]]]

\* Bucket::delete: the first slot holding the fingerprint is cleared
BucketDelete(data, finger) ==
    IF \E s \in Slots : data[s] = finger
    THEN LET s == CHOOSE s \in Slots : data[s] = finger /\ \A t \in 0..(s - 1) : data[t] # finger
         IN  [ok |-> TRUE, data |-> [data EXCEPT ![s] = 0]]
    ELSE [ok |-> FALSE, data |-> data]

\* Bucket::get_fingerprint_index(..).is_some()
BucketHas(data, finger) == \E s \in Slots : data[s] = finger

\* ------------------------------------------------------------------------
\* cuckoo_filter.rs: the operations on a filter value self = (buckets, size, pow)
\* ------------------------------------------------------------------------

Self == [buckets |-> buckets, size |-> size, pow |-> pow]

NumBuckets(self) == Cardinality(DOMAIN self.buckets)

\* load-factor doubling left out
GenSizeNoDoubling(max_num_keys) ==
    upper_power2(IF max_num_keys \div BUCKET_SIZE > 1 THEN max_num_keys \div BUCKET_SIZE ELSE 1)

\* gen_size.  frac = max_num_keys / num_buckets / BUCKET_SIZE is computed in
\* f64: both divisors are powers of two, so frac is exact, and no such quotient
\* lies between 0.96 and the f64 nearest to it (25 * n = 96 * 2^k has no
\* solution); frac > 0.96 is 100 * n > 96 * num_buckets * BUCKET_SIZE.
gen_size(max_num_keys) ==
    LET quot        == max_num_keys \div BUCKET_SIZE
        num_buckets == upper_power2(IF quot > 1 THEN quot ELSE 1)
    IN  IF 100 * max_num_keys > 96 * num_buckets * BUCKET_SIZE
        THEN 2 * num_buckets
        ELSE num_buckets

\* with_capacity that keeps one index bit too many
WithCapacityWidePow(capacity) ==
    [buckets |-> [i \in 0..(capacity - 1) |-> BucketNew],
     size    |-> 0,
     pow     |-> trailing_zeros(capacity) + 1]

\* CuckooFilter::with_capacity
WithCapacity(capacity) ==
    [buckets |-> [i \in 0..(capacity - 1) |-> BucketNew],
     size    |-> 0,
     pow     |-> trailing_zeros(capacity)]

\* insert that stores the fingerprint without counting it
InsertUncounted(self, fp, i) ==
    LET index == i % NumBuckets(self)
        r     == BucketInsert(self.buckets[index], fp)
    IN  [ok |-> r.ok, self |-> [self EXCEPT !.buckets[index] = r.data]]

\* CuckooFilter::insert
Insert(self, fp, i) ==
    LET index == i % NumBuckets(self)
        r     == BucketInsert(self.buckets[index], fp)
    IN  IF r.ok
        THEN [ok |-> TRUE,
              self |-> [self EXCEPT !.buckets[index] = r.data, !.size = @ + 1]]
        ELSE [ok |-> FALSE, self |-> self]

\* an iteration that writes the fingerprint in hand over the slot and keeps it
KickOverwrite(st, j) ==
    LET swapped == [st.self EXCEPT !.buckets[st.i][j] = st.fp]
        alt     == get_alt_index(st.fp, st.i, st.self.pow)
        r       == Insert(swapped, st.fp, alt)
    IN  [self |-> r.self, fp |-> st.fp, i |-> alt, ok |-> r.ok]

\* an iteration that computes the alternate index before the swap, from the
\* fingerprint brought in
KickWrongAlt(st, j) ==
    LET victim  == st.self.buckets[st.i][j]
        swapped == [st.self EXCEPT !.buckets[st.i][j] = st.fp]
        alt     == get_alt_index(st.fp, st.i, st.self.pow)
        r       == Insert(swapped, victim, alt)
    IN  [self |-> r.self, fp |-> victim, i |-> alt, ok |-> r.ok]

\* One iteration of the loop of CuckooFilter::reinsert, with slot j drawn by the
\* random generator: st = (self, fp, i) at the top of the iteration.
Kick(st, j) ==
    LET victim  == st.self.buckets[st.i][j]
        swapped == [st.self EXCEPT !.buckets[st.i][j] = st.fp]
        alt     == get_alt_index(victim, st.i, st.self.pow)
        r       == Insert(swapped, victim, alt)
    IN  [self |-> r.self, fp |-> victim, i |-> alt, ok |-> r.ok]

\* The outcomes of one iteration from the loop states S, over every slot drawn
KickAll(S) == {Kick(st, j) : st \in S, j \in Slots}

\* Of those outcomes, the loop states the next iteration starts from
Failed(after) == {[self |-> a.self, fp |-> a.fp, i |-> a.i] : a \in {x \in after : ~x.ok}}

\* Of those outcomes, the filters reinsert returns Ok with
Placed(after) == {a.self : a \in {x \in after : x.ok}}

\* The loop of CuckooFilter::reinsert over every draw of the random generator.
\* With P(t) the set of states (self, fp, i) the loop can be in after t
\* iterations that all failed to place the victim, `seen` ends with P(t), `done`
\* holds the filters reinsert has returned Ok with in the first t iterations,
\* and n is the number of iterations left.  P(t + 1) = Failed(KickAll(P(t))).
\* The result is the one all MAX_CUCKOO_COUNT iterations give, in fewer steps:
\*  - once P(t - 1) is a subset of P(t) the sets only grow, and the states of
\*    P(t - 1) lead to nothing that is not in P(t) or `done` already, so only
\*    the new states are kicked (seen = <<P(t - 1), P(t)>> from then on) and
\*    the loop has its final sets when no state is new;
\*  - otherwise seen = <<P(0), ..., P(t)>>, and when P(t + 1) = P(m) for an
\*    earlier m the sets repeat with period t + 1 - m: the set after the n - 1
\*    iterations still to do is read off the cycle.
RECURSIVE ReinsertLoop(_, _, _)
ReinsertLoop(seen, done, n) ==
    LET t       == Len(seen)
        pending == seen[t]
    IN  IF n = 0
        THEN [ok |-> done, err |-> {st.self : st \in pending}]
        ELSE IF t >= 2 /\ seen[t - 1] \subseteq pending
        THEN LET new   == pending \ seen[t - 1]
                 after == KickAll(new)
             IN  IF new = {}
                 THEN [ok |-> done, err |-> {st.self : st \in pending}]
                 ELSE ReinsertLoop(<<pending, pending \cup Failed(after)>>,
                                   done \cup Placed(after), n - 1)
        ELSE LET after == KickAll(pending)
                 fail  == Failed(after)
                 succ  == done \cup Placed(after)
             IN  IF \E m \in 1..t : seen[m] = fail
                 THEN LET m      == CHOOSE m \in 1..t : seen[m] = fail
                          period == t + 1 - m
                          final  == seen[m + ((n - 1) % period)]
                      IN  [ok |-> succ, err |-> {st.self : st \in final}]
                 ELSE ReinsertLoop(Append(seen, fail), succ, n - 1)

\* CuckooFilter::reinsert: the filters it can return Ok with, and those it can
\* return NotEnoughSpace with
Reinsert(self, fp, i) ==
    ReinsertLoop(<<{[self |-> self, fp |-> fp, i |-> i]}>>, {}, MAX_CUCKOO_COUNT)

\* CuckooFilter::new
New(max_num_keys) == WithCapacity(gen_size(max_num_keys))

\* The states (self, fp, i) the loop of reinsert can be in at the top of one of
\* its MAX_CUCKOO_COUNT iterations: `all` are the states found, `frontier` those
\* found last, n the iterations left.  An iteration is followed from a state
\* whose bucket index is in range and from a slot that is occupied.
RECURSIVE LoopStates(_, _, _)
LoopStates(all, frontier, n) ==
    IF n = 0 \/ frontier = {} THEN all
    ELSE LET sound == {st \in frontier : st.i < NumBuckets(st.self)}
             after == UNION {{Kick(st, j) :
                                j \in {s \in Slots : st.self.buckets[st.i][s] # 0}} :
                             st \in sound}
             next  == Failed(after) \ all
         IN  LoopStates(all \cup next, next, n - 1)

\* the loop states of reinsert(fp, i) on self
ReinsertStates(self, fp, i) ==
    LET first == {[self |-> self, fp |-> fp, i |-> i]}
    IN  LoopStates(first, first, MAX_CUCKOO_COUNT - 1)

\* rand_index
RandIndex(i1, i2) == {i1, i2}

\* CuckooFilter::add without the alternate bucket and without eviction: a full
\* bucket i1 is reported as NotEnoughSpace
AddNoAlternate(self, item) ==
    LET finger == get_indices_and_fingerprint(item, self.pow)
        r1     == Insert(self, finger.fp, finger.i1)
    IN  IF r1.ok THEN {[res |-> "Ok", self |-> r1.self, kicked |-> FALSE]}
        ELSE {[res |-> "NotEnoughSpace", self |-> self, kicked |-> FALSE]}

\* CuckooFilter::add: every outcome (res, self, kicked) of add(item)
Add(self, item) ==
    LET finger == get_indices_and_fingerprint(item, self.pow)
        r1     == Insert(self, finger.fp, finger.i1)
        r2     == Insert(self, finger.fp, finger.i2)
    IN  IF r1.ok THEN {[res |-> "Ok", self |-> r1.self, kicked |-> FALSE]}
        ELSE IF r2.ok THEN {[res |-> "Ok", self |-> r2.self, kicked |-> FALSE]}
        ELSE UNION {
               LET r == Reinsert(self, finger.fp, i)
               IN  {[res |-> "Ok", self |-> s, kicked |-> TRUE] : s \in r.ok}
                   \cup {[res |-> "NotEnoughSpace", self |-> s, kicked |-> TRUE] : s \in r.err}
               : i \in RandIndex(finger.i1, finger.i2)}

\* CuckooFilter::contains
Contains(self, data) ==
    LET finger == get_indices_and_fingerprint(data, self.pow)
        b1     == self.buckets[finger.i1]
        b2     == self.buckets[finger.i1]
    IN  BucketHas(b1, finger.fp) \/ BucketHas(b2, finger.fp)

\* remove that forgets to count
RemoveUncounted(self, fp, i) ==
    LET r == BucketDelete(self.buckets[i], fp)
    IN  [ok |-> r.ok, self |-> [self EXCEPT !.buckets[i] = r.data]]

\* remove that counts the fingerprint out and leaves it in its slot
RemoveKeepsSlot(self, fp, i) ==
    LET r == BucketDelete(self.buckets[i], fp)
    IN  IF r.ok
        THEN [ok |-> TRUE, self |-> [self EXCEPT !.size = @ - 1]]
        ELSE [ok |-> FALSE, self |-> self]

\* CuckooFilter::remove
Remove(self, fp, i) ==
    LET r == BucketDelete(self.buckets[i], fp)
    IN  IF r.ok
        THEN [ok |-> TRUE,
              self |-> [self EXCEPT !.buckets[i] = r.data, !.size = @ - 1]]
        ELSE [ok |-> FALSE, self |-> self]

\* delete that tries the primary bucket only
DeletePrimaryOnly(self, data) ==
    LET finger == get_indices_and_fingerprint(data, self.pow)
    IN  Remove(self, finger.fp, finger.i1)

\* CuckooFilter::delete
Delete(self, data) ==
    LET finger == get_indices_and_fingerprint(data, self.pow)
        r1     == Remove(self, finger.fp, finger.i1)
    IN  IF r1.ok THEN r1 ELSE Remove(self, finger.fp, finger.i2)

\* CuckooFilter::size
Size(self) == self.size

\* Where the operations abort.  insert divides by the bucket count (line 85);
\* reinsert, contains and remove index the bucket array with the index as it is
\* (lines 98, 117, 118, 136); remove subtracts from size (line 137).

\* self.buckets[i as usize] is out of range
IndexPanics(self, i) == i >= NumBuckets(self)

\* add(item) panics
AddPanics(self, item) ==
    \/ NumBuckets(self) = 0
    \/ LET finger == get_indices_and_fingerprint(item, self.pow)
       IN  /\ ~Insert(self, finger.fp, finger.i1).ok
           /\ ~Insert(self, finger.fp, finger.i2).ok
           /\ \E i \in RandIndex(finger.i1, finger.i2) :
                 \E st \in ReinsertStates(self, finger.fp, i) : IndexPanics(st.self, st.i)

\* contains(data) panics
ContainsPanics(self, data) ==
    \/ NumBuckets(self) = 0
    \/ IndexPanics(self, get_indices_and_fingerprint(data, self.pow).i1)

\* remove(fp, i) panics
RemovePanics(self, fp, i) ==
    \/ IndexPanics(self, i)
    \/ BucketDelete(self.buckets[i], fp).ok /\ self.size = 0

\* delete(data) panics
DeletePanics(self, data) ==
    \/ NumBuckets(self) = 0
    \/ LET finger == get_indices_and_fingerprint(data, self.pow)
       IN  \/ RemovePanics(self, finger.fp, finger.i1)
           \/ /\ ~Remove(self, finger.fp, finger.i1).ok
              /\ RemovePanics(self, finger.fp, finger.i2)

\* ------------------------------------------------------------------------
\* The state machine: a filter is built, then add and delete are called.
\* contains and size take &self and change nothing: they are the operators
\* Contains and Size, evaluated in the state a call has left.
\* ------------------------------------------------------------------------

Init ==
    /\ \E capacity \in 1..MaxCapacity :
         LET cf == WithCapacity(capacity)
         IN  buckets = cf.buckets /\ size = cf.size /\ pow = cf.pow
             /\ arg = [fn |-> "with_capacity", n |-> capacity]
    /\ fpHash \in [Fingerprints -> 0..MaxHash]
    /\ lastOp = "new"
    /\ lastKey = [hash |-> 0, byte |-> 0]
    /\ lastRes = TRUE
    /\ lastKicked = FALSE
    /\ sizeBefore = 0
    /\ numAddOk = 0
    /\ numDeleteOk = 0
    /\ added = {}
    /\ trip = 0
    /\ loop = NoLoop

\* cf.add(item)
AddCall(item) ==
    /\ \E out \in Add(Self, item) :
         /\ buckets' = out.self.buckets
         /\ size' = out.self.size
         /\ pow' = out.self.pow
         /\ lastOp' = "add"
         /\ lastKey' = item
         /\ lastRes' = out.res
         /\ lastKicked' = out.kicked
         /\ sizeBefore' = Size(Self)
         /\ numAddOk' = IF out.res = "Ok" THEN numAddOk + 1 ELSE numAddOk
         /\ trip' = IF trip = 2 /\ item = lastKey THEN 3
                    ELSE IF out.res = "Ok" THEN 1 ELSE 0
    /\ UNCHANGED <<fpHash, numDeleteOk, arg, loop>>

\* cf.delete(data)
DeleteCall(data) ==
    /\ LET out == Delete(Self, data)
       IN  /\ buckets' = out.self.buckets
           /\ size' = out.self.size
           /\ pow' = out.self.pow
           /\ lastOp' = "delete"
           /\ lastKey' = data
           /\ lastRes' = out.ok
           /\ sizeBefore' = Size(Self)
           /\ numDeleteOk' = IF out.ok THEN numDeleteOk + 1 ELSE numDeleteOk
    /\ trip' = IF lastOp = "add" /\ lastRes = "Ok" /\ data = lastKey THEN 2 ELSE 0
    /\ lastKicked' = (lastKicked /\ trip' = 2)
    /\ UNCHANGED <<fpHash, numAddOk, added, arg, loop>>

\* A run is followed until an add would raise size beyond MaxFill, or a delete
\* would be the run's successful delete number MaxDeletes + 1; calls that fail
\* are always followed.
AddBound == lastRes' = "Ok" => size < MaxFill

DeleteBound == lastRes' = TRUE => numDeleteOk < MaxDeletes

\* Any calls on any keys
Next ==
    \/ \E item \in Keys : AddCall(item) /\ AddBound /\ UNCHANGED added
    \/ \E data \in Keys : DeleteCall(data) /\ DeleteBound

Spec == Init /\ [][Next]_vars

\* Only add calls, on any keys, with the keys added so far recorded
NextAdds ==
    \E item \in Keys :
        /\ AddCall(item)
        /\ AddBound
        /\ added' = IF lastRes' = "Ok" THEN added \cup {item} ELSE added

SpecAdds == Init /\ [][NextAdds]_vars

\* Only add calls, all on one key.  No more adds can succeed than the largest
\* filter has slots.
NextRepeat ==
    \E item \in Keys :
        /\ lastOp = "new" \/ item = lastKey
        /\ numAddOk <= BUCKET_SIZE * MaxCapacity
        /\ AddCall(item)
        /\ UNCHANGED added

SpecRepeat == Init /\ [][NextRepeat]_vars

\* Only add calls that return Ok, on any keys; `added` holds one pair
\* <<key, n>> for the n-th successful add of the key.
NextOkAdds ==
    \E item \in Keys :
        /\ AddCall(item)
        /\ AddBound
        /\ lastRes' = "Ok"
        /\ added' = added \cup {<<item, Cardinality({e \in added : e[1] = item}) + 1>>}

SpecOkAdds == Init /\ [][NextOkAdds]_vars

\* ------------------------------------------------------------------------
\* The eviction loop one iteration at a time: add calls on any keys until one
\* of them enters reinsert, whose loop is then followed iteration by iteration
\* to its return.  loop.count is the number of iterations done.
\* ------------------------------------------------------------------------

\* add(item) finds both candidate buckets full (line 78) and calls reinsert
EntersLoop(self, item) ==
    LET finger == get_indices_and_fingerprint(item, self.pow)
    IN  ~Insert(self, finger.fp, finger.i1).ok /\ ~Insert(self, finger.fp, finger.i2).ok

\* cf.add(item) that returns from line 79
AddDirect(item) ==
    /\ loop = NoLoop
    /\ ~EntersLoop(Self, item)
    /\ AddCall(item)
    /\ AddBound
    /\ UNCHANGED added

\* cf.add(item) up to the first iteration of reinsert (lines 77-81, 95)
AddEnterLoop(item) ==
    /\ loop = NoLoop
    /\ EntersLoop(Self, item)
    /\ size < MaxFill
    /\ LET finger == get_indices_and_fingerprint(item, pow)
       IN  \E i \in RandIndex(finger.i1, finger.i2) :
             loop' = [pc |-> "loop", count |-> 0, fp |-> finger.fp, i |-> i]
    /\ lastOp' = "adding"
    /\ lastKey' = item
    /\ lastRes' = "running"
    /\ lastKicked' = TRUE
    /\ sizeBefore' = Size(Self)
    /\ UNCHANGED <<buckets, size, pow, fpHash, numAddOk, numDeleteOk, added, trip, arg>>

\* one iteration of the loop (lines 96-104), returning Ok when insert succeeds
LoopStep ==
    /\ loop.pc = "loop"
    /\ loop.count < MAX_CUCKOO_COUNT
    /\ \E j \in Slots :
         LET k == Kick([self |-> Self, fp |-> loop.fp, i |-> loop.i], j)
         IN  /\ buckets' = k.self.buckets
             /\ size' = k.self.size
             /\ pow' = k.self.pow
             /\ loop' = [pc    |-> IF k.ok THEN "idle" ELSE "loop",
                         count |-> loop.count + 1,
                         fp    |-> k.fp,
                         i     |-> k.i]
             /\ lastOp' = IF k.ok THEN "add" ELSE lastOp
             /\ lastRes' = IF k.ok THEN "Ok" ELSE lastRes
             /\ numAddOk' = IF k.ok THEN numAddOk + 1 ELSE numAddOk
    /\ UNCHANGED <<fpHash, lastKey, lastKicked, sizeBefore, numDeleteOk, added, trip, arg>>

\* NotEnoughSpace returned from inside the loop, after any iteration
LoopExitEarly ==
    /\ loop.pc = "loop"
    /\ loop' = [loop EXCEPT !.pc = "idle"]
    /\ lastOp' = "add"
    /\ lastRes' = "NotEnoughSpace"
    /\ UNCHANGED <<buckets, size, pow, fpHash, lastKey, lastKicked, sizeBefore,
                   numAddOk, numDeleteOk, added, trip, arg>>

\* the loop is exhausted (line 105)
LoopExit ==
    /\ loop.pc = "loop"
    /\ loop.count = MAX_CUCKOO_COUNT
    /\ loop' = [loop EXCEPT !.pc = "idle"]
    /\ lastOp' = "add"
    /\ lastRes' = "NotEnoughSpace"
    /\ UNCHANGED <<buckets, size, pow, fpHash, lastKey, lastKicked, sizeBefore,
                   numAddOk, numDeleteOk, added, trip, arg>>

NextLoop ==
    \/ \E item \in Keys : AddDirect(item)
    \/ \E item \in Keys : AddEnterLoop(item)
    \/ LoopStep
    \/ LoopExit

SpecLoop == Init /\ [][NextLoop]_vars

\* ------------------------------------------------------------------------
\* Filters of any shape: built by with_capacity(c) for any c, zero and the
\* counts that are no power of two included, or by new(n); then add, contains
\* and delete are called, and a call that panics ends the run.
\* ------------------------------------------------------------------------

InitShapes ==
    /\ \/ \E c \in 0..MaxRequest :
            LET cf == WithCapacity(c)
            IN  /\ buckets = cf.buckets /\ size = cf.size /\ pow = cf.pow
                /\ arg = [fn |-> "with_capacity", n |-> c]
       \/ \E n \in 0..MaxNewKeys :
            LET cf == New(n)
            IN  /\ buckets = cf.buckets /\ size = cf.size /\ pow = cf.pow
                /\ arg = [fn |-> "new", n |-> n]
    /\ fpHash \in [Fingerprints -> 0..MaxHash]
    /\ lastOp = "new"
    /\ lastKey = [hash |-> 0, byte |-> 0]
    /\ lastRes = TRUE
    /\ lastKicked = FALSE
    /\ sizeBefore = 0
    /\ numAddOk = 0
    /\ numDeleteOk = 0
    /\ added = {}
    /\ trip = 0
    /\ loop = NoLoop

\* the call op(key) has panicked
Panic(op, key) ==
    /\ lastOp' = "panic"
    /\ lastRes' = op
    /\ lastKey' = key
    /\ UNCHANGED <<buckets, size, pow, fpHash, lastKicked, sizeBefore, numAddOk,
                   numDeleteOk, added, trip, arg, loop>>

\* cf.add(item), which may panic
AddOrPanic(item) ==
    /\ lastOp # "panic"
    /\ IF AddPanics(Self, item)
       THEN Panic("add", item)
       ELSE AddCall(item) /\ AddBound /\ UNCHANGED added

\* cf.delete(data), which may panic
DeleteOrPanic(data) ==
    /\ lastOp # "panic"
    /\ IF DeletePanics(Self, data)
       THEN Panic("delete", data)
       ELSE DeleteCall(data) /\ DeleteBound

\* cf.contains(data), which may panic and changes nothing otherwise
ContainsOrPanic(data) ==
    /\ lastOp # "panic"
    /\ IF ContainsPanics(Self, data)
       THEN Panic("contains", data)
       ELSE /\ Contains(Self, data) \in BOOLEAN
            /\ UNCHANGED vars

NextShapes ==
    \/ \E item \in Keys : AddOrPanic(item)
    \/ \E data \in Keys : DeleteOrPanic(data)
    \/ \E data \in Keys : ContainsOrPanic(data)

SpecShapes == InitShapes /\ [][NextShapes]_vars

\* ------------------------------------------------------------------------
\* Functions under test: the argument is drawn, then the function is applied.
\* ------------------------------------------------------------------------

\* No filter is built: the argument `a` of the function is all there is
NoFilter(a) ==
    /\ arg = a
    /\ buckets = << >> /\ size = 0 /\ pow = 0
    /\ fpHash = [f \in Fingerprints |-> 0]
    /\ lastOp = "input"
    /\ lastKey = [hash |-> 0, byte |-> 0]
    /\ lastRes = [ok |-> TRUE, value |-> 0]
    /\ lastKicked = FALSE
    /\ sizeBefore = 0
    /\ numAddOk = 0
    /\ numDeleteOk = 0
    /\ added = {}
    /\ trip = 0
    /\ loop = NoLoop

\* the 64-bit values trailing_zeros is called with
Inputs64 ==
    LET base == {Shl64(U64(m), k) : m \in 0..MaxMultiplier, k \in 0..63}
    IN  base \cup {Neg64(a) : a \in base}

InitTrailingZeros == \E a \in Inputs64 : NoFilter(a)

\* trailing_zeros(arg)
TrailingZerosCall ==
    /\ lastOp = "input"
    /\ lastOp' = "trailing_zeros"
    /\ lastRes' \in trailing_zeros_u64(arg)
    /\ UNCHANGED <<buckets, size, pow, fpHash, lastKey, lastKicked, sizeBefore,
                   numAddOk, numDeleteOk, added, trip, arg, loop>>

SpecTrailingZeros == InitTrailingZeros /\ [][TrailingZerosCall]_vars

InitGenSize == \E n \in 0..MaxNumKeys : NoFilter(n)

\* gen_size(arg)
GenSizeCall ==
    /\ lastOp = "input"
    /\ lastOp' = "gen_size"
    /\ lastRes' = [ok |-> TRUE, value |-> gen_size(arg)]
    /\ UNCHANGED <<buckets, size, pow, fpHash, lastKey, lastKicked, sizeBefore,
                   numAddOk, numDeleteOk, added, trip, arg, loop>>

SpecGenSize == InitGenSize /\ [][GenSizeCall]_vars

\* ------------------------------------------------------------------------
\* Properties
\* ------------------------------------------------------------------------

\* the number of non-zero slots over all buckets
Occupied(bk) == Cardinality({c \in (DOMAIN bk) \X Slots : bk[c[1]][c[2]] # 0})

\* the number of slots holding fingerprint f
CountOf(bk, f) == Cardinality({c \in (DOMAIN bk) \X Slots : bk[c[1]][c[2]] = f})

\* the fingerprints stored in some slot
Stored(bk) == {bk[c[1]][c[2]] : c \in (DOMAIN bk) \X Slots} \ {0}

\* the fingerprint of key k occupies a slot of one of its two candidate buckets
InCandidateBucket(self, k) ==
    LET f == get_indices_and_fingerprint(k, self.pow)
    IN  \/ \E s \in Slots : self.buckets[f.i1][s] = f.fp
        \/ \E s \in Slots : self.buckets[f.i2][s] = f.fp

\* C1: immediately after an add(k) that returned Ok, contains(k) returns true.
C1_AddThenContains ==
    (lastOp = "add" /\ lastRes = "Ok") => Contains(Self, lastKey)

\* C2: contains(k) returns true if and only if fp(k) occupies some slot of
\* bucket i1(k) or some slot of bucket i2(k).
C2_ContainsIffInEitherBucket ==
    \A k \in Keys : Contains(Self, k) <=> InCandidateBucket(Self, k)

\* C3: in every reachable state the size counter equals the number of non-zero
\* slots summed over all buckets.
C3_SizeIsOccupied == size = Occupied(buckets)

\* C3 witness: an add ran the eviction loop and failed, leaving two different
\* fingerprints in the filter.
C3_Witness ==
    /\ lastOp = "add" /\ lastRes = "NotEnoughSpace" /\ lastKicked
    /\ Cardinality(Stored(buckets)) = 2
    /\ size = Occupied(buckets)

\* C4: size() equals the number of add calls that returned Ok minus the number
\* of delete calls that returned true; a successful add raises size() by
\* exactly 1 (kicks or not), a successful delete lowers it by exactly 1, and a
\* failed add or delete leaves it unchanged.
C4_SizeIsAddsMinusDeletes ==
    /\ size = numAddOk - numDeleteOk
    /\ lastOp = "add" => size = sizeBefore + (IF lastRes = "Ok" THEN 1 ELSE 0)
    /\ lastOp = "delete" => size = sizeBefore - (IF lastRes = TRUE THEN 1 ELSE 0)

\* C4 witness: an add that ran the eviction loop returned Ok.
C4_Witness ==
    /\ lastOp = "add" /\ lastRes = "Ok" /\ lastKicked
    /\ size = sizeBefore + 1
    /\ size = numAddOk - numDeleteOk

\* C5: when add(k) returns NotEnoughSpace the multiset of fingerprints stored
\* in the filter is the one stored before the call.
C5_FailedAddKeepsFingerprints ==
    [][(lastOp' = "add" /\ lastRes' = "NotEnoughSpace") =>
          \A f \in Stored(buckets) \cup Stored(buckets') :
              CountOf(buckets', f) = CountOf(buckets, f)]_vars

\* C6: delete(k) returns false and changes no slot and not size when neither
\* candidate bucket of k holds fp(k); when it returns true exactly one slot is
\* cleared, that slot held fp(k) and lies in bucket i1(k) or i2(k), size
\* decreases by exactly 1 and every other slot is unchanged.
C6_DeleteFrame ==
    [][\A k \in Keys :
          (lastOp' = "delete" /\ lastKey' = k) =>
              LET f == get_indices_and_fingerprint(k, pow)
              IN  /\ ~InCandidateBucket(Self, k) =>
                        (lastRes' = FALSE /\ buckets' = buckets /\ size' = size)
                  /\ lastRes' = TRUE =>
                        /\ size' = size - 1
                        /\ \E b \in {f.i1, f.i2} : \E s \in Slots :
                              /\ buckets[b][s] = f.fp
                              /\ buckets' = [buckets EXCEPT ![b][s] = 0]
                  /\ lastRes' = FALSE => (buckets' = buckets /\ size' = size)]_vars

\* C6 witness: a delete returned true while the fingerprint it removed is still
\* stored in another slot.
C6_Witness ==
    /\ lastOp = "delete" /\ lastRes = TRUE
    /\ CountOf(buckets, get_indices_and_fingerprint(lastKey, pow).fp) > 0
    /\ Stored(buckets) # {get_indices_and_fingerprint(lastKey, pow).fp}

\* C7: a delete(k) issued immediately after an add(k) that returned Ok returns
\* true; and when the filter was empty before the add, size() is 0 and
\* contains(k) is false afterwards.
C7_DeleteAfterAdd ==
    [][\A k \in Keys :
          (lastOp = "add" /\ lastRes = "Ok" /\ lastKey = k
             /\ lastOp' = "delete" /\ lastKey' = k) =>
              /\ lastRes' = TRUE
              /\ sizeBefore = 0 => (size' = 0 /\ ~Contains(Self, k)')]_vars

\* C7 witness: the delete returned true after an add of the same key that went
\* through the eviction loop.
C7_Witness == lastOp = "delete" /\ trip = 2 /\ lastKicked /\ lastRes = TRUE

\* C8: after add(k) returning Ok, delete(k), add(k), the second add has returned
\* Ok and contains(k) returns true.
C8_RoundTrip ==
    trip = 3 => (lastRes = "Ok" /\ Contains(Self, lastKey))

\* C9: when add enters the eviction loop and returns Ok, size() increases by
\* exactly 1 and contains(k2) returns what it returned before the call for
\* every previously added key k2.
C9_EvictionKeepsContains ==
    [][(lastOp' = "add" /\ lastKicked' /\ lastRes' = "Ok") =>
          /\ size' = size + 1
          /\ \A k2 \in added : Contains(Self, k2)' = Contains(Self, k2)]_vars

\* C10: from an empty filter in which key k has two distinct candidate buckets,
\* the first 2 * BUCKET_SIZE calls add(k) return Ok, each raising size() by 1,
\* and every later add(k) returns NotEnoughSpace and leaves size() at
\* 2 * BUCKET_SIZE.
C10_RepeatedAdd ==
    LET f == get_indices_and_fingerprint(lastKey, pow)
    IN  (lastOp = "add" /\ f.i1 # f.i2) =>
            /\ size = numAddOk
            /\ sizeBefore < 2 * BUCKET_SIZE => (lastRes = "Ok" /\ size = sizeBefore + 1)
            /\ sizeBefore >= 2 * BUCKET_SIZE =>
                  (lastRes = "NotEnoughSpace" /\ size = 2 * BUCKET_SIZE)

\* C10 witness: the ninth add of the key has failed.
C10_Witness ==
    LET f == get_indices_and_fingerprint(lastKey, pow)
    IN  /\ lastOp = "add" /\ f.i1 # f.i2
        /\ lastRes = "NotEnoughSpace"
        /\ numAddOk = 2 * BUCKET_SIZE /\ size = 2 * BUCKET_SIZE

\* bit b (0: least significant) of a u64 given as bytes
Bit(a, b) == (a[(b \div 8) + 1] \div Pow2(b % 8)) % 2

\* the number of trailing zero bits of a u64 given as bytes, 64 for zero
TrailingZeroBits(a) ==
    IF \A b \in 0..63 : Bit(a, b) = 0 THEN 64
    ELSE CHOOSE b \in 0..63 : Bit(a, b) = 1 /\ \A t \in 0..(b - 1) : Bit(a, t) = 0

\* C20: for every 64-bit c, trailing_zeros(c) returns the number of trailing
\* zero bits of c, and trailing_zeros(0) returns 64.
C20_TrailingZeros ==
    lastOp = "trailing_zeros" =>
        /\ lastRes.ok
        /\ lastRes.value = TrailingZeroBits(arg)
        /\ arg = Zero64 => lastRes.value = 64

\* n is a power of two
IsPowerOfTwo(n) == \E e \in 0..30 : n = Pow2(e)

\* P buckets are enough for n keys: P >= max(1, n / 4) and n / (4 * P) <= 0.96
Enough(P, n) ==
    /\ P >= 1
    /\ P >= n \div BUCKET_SIZE
    /\ 100 * n <= 96 * BUCKET_SIZE * P

\* C13: gen_size(n) is the smallest power of two P >= 1 with
\* P >= max(1, n / 4) and n / (4 * P) <= 0.96; gen_size(100) = 32 and
\* gen_size(64) = 32.
C13_GenSize ==
    lastOp = "gen_size" =>
        LET P == lastRes.value
        IN  /\ IsPowerOfTwo(P)
            /\ Enough(P, arg)
            /\ \A Q \in 1..(P - 1) : IsPowerOfTwo(Q) => ~Enough(Q, arg)
            /\ arg \in {64, 100} => P = 32

\* C13 witness: gen_size(64), where the load factor 64 / (16 * 4) doubles the
\* bucket count, has returned 32.
C13_Witness == lastOp = "gen_size" /\ arg = 64 /\ lastRes.value = 32

\* C11: no operation panics, whatever the capacity requested of new or
\* with_capacity (zero included) and whatever the keys.
C11_NoPanic == lastOp # "panic"

\* C12: the bucket array length N is a power of two and N = 2^pow, for every
\* filter built by new(n) or with_capacity(c) and in every state reachable
\* from it.
C12_PowerOfTwoShape ==
    /\ pow < 31
    /\ NumBuckets(Self) = Pow2(pow)

\* both candidate buckets of key k are full: add(k) enters the eviction loop
BothFull(self, k) ==
    LET f == get_indices_and_fingerprint(k, self.pow)
    IN  /\ \A s \in Slots : self.buckets[f.i1 % NumBuckets(self)][s] # 0
        /\ \A s \in Slots : self.buckets[f.i2 % NumBuckets(self)][s] # 0

\* C19: in a filter of c >= 1 buckets, a power of two or not, every bucket
\* index that add, the eviction loop, contains and delete use is smaller than
\* the bucket array length (2^pow <= c), so the unreduced index of reinsert,
\* contains and remove is the index insert reduces modulo the length.
C19_IndicesInRange ==
    NumBuckets(Self) >= 1 =>
        /\ lastOp # "panic"
        /\ Pow2(pow) <= NumBuckets(Self)
        /\ \A k \in Keys :
              LET f == get_indices_and_fingerprint(k, pow)
                  N == NumBuckets(Self)
              IN  /\ f.i1 < N /\ f.i1 % N = f.i1
                  /\ f.i2 < N /\ f.i2 % N = f.i2
                  /\ BothFull(Self, k) =>
                        \A i \in RandIndex(f.i1, f.i2) :
                            \A st \in ReinsertStates(Self, f.fp, i) :
                                /\ st.i < N
                                /\ \A j \in Slots :
                                      LET alt == get_alt_index(st.self.buckets[st.i][j],
                                                               st.i, pow)
                                      IN  alt < N /\ alt % N = alt

\* C19 witness: in a filter of three buckets an add has run the eviction loop.
C19_Witness ==
    /\ arg = [fn |-> "with_capacity", n |-> 3]
    /\ lastOp = "add" /\ lastKicked

\* C15: whenever size() is 0, contains(k) returns false for every key k.
C15_EmptyContainsNothing ==
    Size(Self) = 0 => \A k \in Keys : ~Contains(Self, k)

\* C15 witness: a delete has emptied the filter again and contains finds
\* nothing.
C15_Witness ==
    /\ lastOp = "delete" /\ lastRes = TRUE
    /\ Size(Self) = 0
    /\ \A k \in Keys : ~Contains(Self, k)

\* the eviction loop is within its 500 iterations, and has returned
\* NotEnoughSpace only after all of them
LoopWithinCount ==
    /\ loop.count <= 500
    /\ loop.pc = "loop" => (lastOp = "adding" /\ size = sizeBefore)
    /\ (lastOp = "add" /\ lastKicked /\ lastRes = "NotEnoughSpace") =>
          (loop.count = 500 /\ size = sizeBefore)
    /\ (lastOp = "add" /\ lastKicked /\ lastRes = "Ok") =>
          (loop.count \in 1..500 /\ size = sizeBefore + 1)

\* C14: every add call returns Ok or NotEnoughSpace after at most 500
\* iterations of the eviction loop, whatever slots and start bucket are drawn:
\* every step of a running loop is one more iteration, which returns Ok or goes
\* on, or is the return of NotEnoughSpace after iteration 500; NotEnoughSpace
\* is returned only when all 500 iterations failed to place the fingerprint.
C14_AddTerminates ==
    /\ []LoopWithinCount
    /\ [][loop.pc = "loop" =>
            \/ /\ loop.count < 500
               /\ loop'.count = loop.count + 1
               /\ \/ loop'.pc = "loop"
                  \/ loop'.pc = "idle" /\ lastOp' = "add" /\ lastRes' = "Ok"
            \/ /\ loop.count = 500
               /\ loop'.pc = "idle" /\ lastOp' = "add" /\ lastRes' = "NotEnoughSpace"]_vars

\* C14 witness: an add has returned NotEnoughSpace from a filter that holds two
\* different fingerprints.
C14_Witness ==
    /\ lastOp = "add" /\ lastKicked /\ lastRes = "NotEnoughSpace"
    /\ loop.count = 500
    /\ Cardinality(Stored(buckets)) = 2

\* C17: every iteration of the eviction loop swaps the fingerprint in hand with
\* an occupied slot: the fingerprint taken out is non-zero and the one put in is
\* the one that was in hand; the number of occupied slots stays what it was
\* while the loop runs, and when add fails with NotEnoughSpace.
C17_SwapNotOverwrite ==
    [][loop.pc = "loop" =>
         /\ loop.count < MAX_CUCKOO_COUNT =>
               /\ loop'.fp # 0
               /\ \E j \in Slots :
                     LET swapped == [buckets EXCEPT ![loop.i][j] = loop.fp]
                     IN  /\ buckets[loop.i][j] = loop'.fp
                         /\ IF loop'.pc = "loop"
                            THEN buckets' = swapped
                            ELSE \E s \in Slots :
                                   /\ swapped[loop'.i][s] = 0
                                   /\ buckets' = [swapped EXCEPT ![loop'.i][s] = loop'.fp]
               /\ loop'.pc = "loop" => Occupied(buckets') = Occupied(buckets)
         /\ lastRes' = "NotEnoughSpace" =>
               (Occupied(buckets') = Occupied(buckets) /\ Occupied(buckets') = sizeBefore)]_vars

\* C17 witness: the loop is running and the fingerprint in hand is one it took
\* out of a slot, different from the fingerprint of the key being added.
C17_Witness ==
    /\ loop.pc = "loop" /\ loop.count >= 2
    /\ loop.fp # get_indices_and_fingerprint(lastKey, pow).fp
    /\ Occupied(buckets) = sizeBefore

\* bucket b has an empty slot
HasRoom(b) == \E s \in Slots : b[s] = 0

\* the first empty slot of a bucket that has one
FirstEmpty(b) == CHOOSE s \in Slots : b[s] = 0 /\ \A t \in 0..(s - 1) : b[t] # 0

\* C18: add(k) writes fp(k) to the first empty slot of bucket i1(k) if it has
\* one, otherwise to the first empty slot of bucket i2(k) if it has one; in both
\* cases it returns Ok, changes no other slot and evicts nothing.  The eviction
\* loop is entered only when both candidate buckets are full.
C18_DirectInsert ==
    [][\A k \in Keys :
          (lastOp' = "add" /\ lastKey' = k) =>
              LET f  == get_indices_and_fingerprint(k, pow)
                  b1 == buckets[f.i1]
                  b2 == buckets[f.i2]
              IN  /\ HasRoom(b1) =>
                        /\ lastRes' = "Ok" /\ ~lastKicked'
                        /\ buckets' = [buckets EXCEPT ![f.i1][FirstEmpty(b1)] = f.fp]
                  /\ (~HasRoom(b1) /\ HasRoom(b2)) =>
                        /\ lastRes' = "Ok" /\ ~lastKicked'
                        /\ buckets' = [buckets EXCEPT ![f.i2][FirstEmpty(b2)] = f.fp]
                  /\ lastKicked' <=> (~HasRoom(b1) /\ ~HasRoom(b2))]_vars

\* C18 witness: bucket i1 of the key was full and add has written its
\* fingerprint to a bucket i2 that is another bucket.
C18_Witness ==
    LET f == get_indices_and_fingerprint(lastKey, pow)
    IN  /\ lastOp = "add" /\ lastRes = "Ok" /\ ~lastKicked
        /\ f.i1 # f.i2
        /\ \A s \in Slots : buckets[f.i1][s] # f.fp
        /\ \E s \in Slots : buckets[f.i2][s] = f.fp

\* the occupied slots, as pairs <<bucket, slot>>
OccupiedSlots == {c \in (DOMAIN buckets) \X Slots : buckets[c[1]][c[2]] # 0}

\* The added keys ks can be matched one-to-one with the slots cs so that each
\* key's slot lies in one of its two candidate buckets and holds its fingerprint
RECURSIVE Matches(_, _)
Matches(ks, cs) ==
    IF ks = {} THEN cs = {}
    ELSE LET e == CHOOSE e \in ks : TRUE
             f == get_indices_and_fingerprint(e[1], pow)
         IN  \E c \in cs :
                 /\ buckets[c[1]][c[2]] = f.fp
                 /\ c[1] \in {f.i1, f.i2}
                 /\ Matches(ks \ {e}, cs \ {c})

\* C16: after add calls that all returned Ok, the stored fingerprints can be
\* matched one-to-one with the added keys so that each key's fingerprint lies
\* in bucket i1(k) or bucket i2(k): eviction moves a fingerprint only from a
\* bucket to its alternate bucket.
C16_CandidateResidence == Matches(added, OccupiedSlots)

\* C16 witness: an add has evicted, and the fingerprint of some added key now
\* lies in its bucket i2 only, another bucket than i1.
C16_Witness ==
    /\ lastOp = "add" /\ lastRes = "Ok" /\ lastKicked
    /\ \E e \in added :
          LET f == get_indices_and_fingerprint(e[1], pow)
          IN  /\ f.i1 # f.i2
              /\ \A s \in Slots : buckets[f.i1][s] # f.fp
              /\ \E s \in Slots : buckets[f.i2][s] = f.fp
    /\ Matches(added, OccupiedSlots)

====
